---- MODULE Spec2Model ----
(***************************************************************************)
(* Model of bspyproc/architectures/multiplexing/dnpu.py: the 3-layer DNPU  *)
(* graph TwoToTwoToOneDNPU and its base class DNPUArchitecture.            *)
(*                                                                         *)
(* Floats are fixed-point integers in thousandths (One = 1.0); variances   *)
(* are in millionths (One * One = 1.0).  Tensors of shape [batch, 2] are   *)
(* sequences of pairs, tensors of shape [batch, 1] sequences of numbers.   *)
(* The forward pass is modelled statement by statement with a program      *)
(* counter; all other methods are one action each.                         *)
(***************************************************************************)
EXTENDS Integers, Sequences, FiniteSets, TLC

VARIABLES configs, amplification, clipping_value,
          offset, scale, scale_is_parameter, control, bn, training,
          pc, input, layer, x, x1, x2, device_output, bnx, std, cut, clipped,
          ret, ncalls

vars == <<configs, amplification, clipping_value,
          offset, scale, scale_is_parameter, control, bn, training,
          pc, input, layer, x, x1, x2, device_output, bnx, std, cut, clipped,
          ret, ncalls>>

constructed == <<configs, amplification, clipping_value>>
affine      == <<offset, scale, scale_is_parameter>>
locals      == <<input, layer, x, x1, x2, device_output, bnx, std, cut, clipped>>
counters    == <<ncalls>>

----------------------------------------------------------------------------
(* Bounds of the exploration *)
MaxCalls == 4

(* Fixed point: the float 1.0 *)
One == 1000

(* 1.8 in current_to_voltage, in thousandths *)
CVGain == 1800
(* the 4 of 1.8 / (4 * std) *)
CVDiv == 4
(* the 2 of cut = 2 * std *)
CutFactor == 2
(* nn.BatchNorm1d defaults: eps = 1e-5 (in millionths), momentum = 0.1 = 1/10 *)
BNEps == 10
BNMomentumInv == 10

Devices == {"input_node1", "input_node2", "hidden_node1", "hidden_node2", "output_node"}

(* the three draws from [0, 1) that a construction or a reset consumes:   *)
(* two for the offset, one for the scale                                  *)
Draws == { <<0, 0, 0>>, <<999, 500, 999>> }

(* the configurations a graph is constructed with; batch_norm is a boolean *)
(* key of the dictionary that may be missing                               *)
Configs ==
  { [offset_min |-> -350, offset_max |-> 700, scale_min |-> 100, scale_max |-> 1500,
     conversion_offset |-> -600, output_clipping_value |-> 1000, batch_norm |-> "True",
     amplification |-> [d \in Devices |-> IF d = "input_node2" THEN 2000 ELSE 1000]],
    [offset_min |-> 1000, offset_max |-> 2000, scale_min |-> 1000, scale_max |-> 1000,
     conversion_offset |-> -600, output_clipping_value |-> 1000, batch_norm |-> "False",
     amplification |-> [d \in Devices |-> 1000]],
    [offset_min |-> -350, offset_max |-> 700, scale_min |-> 1000, scale_max |-> 1000,
     conversion_offset |-> 0, output_clipping_value |-> 2000, batch_norm |-> "absent",
     amplification |-> [d \in Devices |-> 1000]] }

(* input tensors of shape [batch, 2] handed to forward() *)
InputBatches ==
  { << <<0, 0>>, <<1000, -1000>> >>,
    << <<2000, 1000>>, <<-3000, 500>>, <<500, 500>> >> }

(* outcomes of the random draws of one reset(): the control parameters    *)
(* the five device resets draw, and the draws for offset and scale         *)
ResetDraws ==
  { [control |-> [d \in Devices |-> 0], r |-> <<999, 500, 999>>],
    [control |-> [d \in Devices |-> IF d \in {"input_node1", "hidden_node2"} THEN 1 ELSE 0],
     r |-> <<0, 0, 0>>] }

(* control parameters of the devices as get_processor returns them *)
InitialControl == [d \in Devices |-> IF d \in {"input_node2", "hidden_node1"} THEN 1 ELSE 0]

(* parameter updates an optimizer step can make *)
Updates ==
  { [d_offset |-> <<100, -100>>, d_scale |-> 100,
     control |-> [d \in Devices |-> IF d = "output_node" THEN 1 ELSE 0]],
    [d_offset |-> <<3000, -3000>>, d_scale |-> 2000,
     control |-> [d \in Devices |-> IF d \in {"hidden_node1", "input_node1"} THEN 2 ELSE 0]] }

NoTensor == << >>

----------------------------------------------------------------------------
(* numeric helpers *)

Min(a, b) == IF a < b THEN a ELSE b
Max(a, b) == IF a > b THEN a ELSE b

RECURSIVE SumSeq(_)
SumSeq(s) == IF s = << >> THEN 0 ELSE Head(s) + SumSeq(Tail(s))

relu(v) == IF v > 0 THEN v ELSE 0

RECURSIVE SqrtIter(_, _, _)
SqrtIter(v, lo, hi) ==
  IF lo >= hi THEN lo
  ELSE LET mid == (lo + hi + 1) \div 2
       IN IF mid * mid <= v THEN SqrtIter(v, mid, hi) ELSE SqrtIter(v, lo, mid - 1)

(* np.sqrt of a variance in millionths, result in thousandths *)
Sqrt(v) == SqrtIter(v, 0, 46340)

Column(t, c) == [k \in 1..Len(t) |-> t[k][c]]

----------------------------------------------------------------------------
(* DNPUArchitecture *)

init_offset(offset_min, offset_max, r) ==
  [c \in 1..2 |-> offset_min + (offset_max * r[c]) \div One]

init_scale_always_parameter(cfg, scale_min, scale_max, r) ==
  IF cfg.scale_min = One /\ cfg.scale_max = One
  THEN [value |-> One, parameter |-> TRUE]
  ELSE [value |-> scale_min + (scale_max * r) \div One, parameter |-> TRUE]

init_scale(cfg, scale_min, scale_max, r) ==
  IF cfg.scale_min = One /\ cfg.scale_max = One
  THEN [value |-> One, parameter |-> FALSE]
  ELSE [value |-> scale_min + (scale_max * r) \div One, parameter |-> TRUE]

offset_penalty_lower_only ==
  SumSeq([c \in 1..2 |-> relu(configs.offset_min - offset[c])])

offset_penalty ==
  SumSeq([c \in 1..2 |-> relu(configs.offset_min - offset[c])
                          + relu(offset[c] - configs.offset_max)])

scale_penalty ==
  relu(configs.scale_min - scale) + relu(scale - configs.scale_max)

(* torch.clamp(x, min=-clipping_value, max=clipping_value) on one element *)
clamp(v, lo, hi) == Min(Max(v, lo), hi)

clip(t, clipping_value_) == [k \in 1..Len(t) |-> clamp(t[k], -clipping_value_, clipping_value_)]

(* a freshly constructed nn.BatchNorm1d(2, affine=False) *)
FreshBatchNorm ==
  [running_mean |-> <<0, 0>>, running_var |-> <<One * One, One * One>>,
   num_batches_tracked |-> 0]

BatchMean(col) == SumSeq(col) \div Len(col)

SumSquares(col) ==
  LET m == BatchMean(col) IN SumSeq([k \in 1..Len(col) |-> (col[k] - m) * (col[k] - m)])

Normalize(v, mean, var) == ((v - mean) * One) \div Sqrt(var + BNEps)

(* the module call bn(t): the normalized tensor *)
BatchNormOutput(b, t, train) ==
  [k \in 1..Len(t) |->
     [c \in 1..2 |->
        IF train
        THEN Normalize(t[k][c], BatchMean(Column(t, c)), SumSquares(Column(t, c)) \div Len(t))
        ELSE Normalize(t[k][c], b.running_mean[c], b.running_var[c])]]

(* the exponential update of the running estimates by one batch *)
MovingAverage(b, t) ==
  [running_mean |->
     [c \in 1..2 |-> ((BNMomentumInv - 1) * b.running_mean[c] + BatchMean(Column(t, c)))
                        \div BNMomentumInv],
   running_var |->
     [c \in 1..2 |-> ((BNMomentumInv - 1) * b.running_var[c]
                        + SumSquares(Column(t, c)) \div (Len(t) - 1))
                        \div BNMomentumInv],
   num_batches_tracked |-> b.num_batches_tracked + 1]

BatchNormUpdate_in_every_mode(b, t, train) == MovingAverage(b, t)

(* the module call bn(t): the state of the module afterwards *)
BatchNormUpdate(b, t, train) == IF train THEN MovingAverage(b, t) ELSE b

(* the std that batch_norm returns given the module state before (b) and  *)
(* after (b_after) the call of the module                                  *)
batch_norm_std_before_update(b, b_after) == [c \in 1..2 |-> Sqrt(b.running_var[c])]

batch_norm_std(b, b_after) == [c \in 1..2 |-> Sqrt(b_after.running_var[c])]

(* current_to_voltage on one channel; 1.8 / 0 * 0 is NaN *)
current_to_voltage_no_clip(col, std_) == col

current_to_voltage_clip(col, std_) == clip(col, CutFactor * std_)

current_to_voltage_half_divisor(col, std_, conversion_offset) ==
  LET c == current_to_voltage_clip(col, std_)
  IN [k \in 1..Len(col) |->
        IF std_ = 0 THEN "nan"
        ELSE (CVGain * c[k]) \div (CutFactor * std_) + conversion_offset]

current_to_voltage(col, std_, conversion_offset) ==
  LET c == current_to_voltage_clip(col, std_)
  IN [k \in 1..Len(col) |->
        IF std_ = 0 THEN "nan"
        ELSE (CVGain * c[k]) \div (CVDiv * std_) + conversion_offset]

----------------------------------------------------------------------------
(* DeviceUnit: the opaque processors returned by get_processor; a control  *)
(* parameter of 0 or 1 lies in the device's valid range, 2 outside it      *)

DeviceFunction(p, row) ==
  CASE p = 0 -> row[1] + row[2]
    [] p = 1 -> 2 * row[1] - row[2]
    [] OTHER -> 3 * (row[1] + row[2])

DeviceForward(d, t) ==
  [k \in 1..Len(t) |-> (amplification[d] * DeviceFunction(control[d], t[k])) \div One]

DeviceRegularizer(d) == IF control[d] = 2 THEN 500 ELSE 0

----------------------------------------------------------------------------
(* TwoToTwoToOneDNPU *)

FirstNode(i)  == IF i = 1 THEN "input_node1" ELSE "hidden_node1"
SecondNode(i) == IF i = 1 THEN "input_node2" ELSE "hidden_node2"

init_clipping_values(base_clipping_value, amp) ==
  [d \in Devices |-> (base_clipping_value * amp[d]) \div One]

(* torch.cat((a, b), dim=1) of two [batch, 1] tensors *)
Cat(a, b) == [k \in 1..Len(a) |-> <<a[k], b[k]>>]

(* __init__: DNPUArchitecture.__init__, init_model, init_clipping_values, bn1, bn2 *)
Init ==
  \E cfg \in Configs, r \in Draws :
    LET s == init_scale(cfg, cfg.scale_min, cfg.scale_max, r[3]) IN
    /\ configs = [f \in DOMAIN cfg \ {"amplification"} |-> cfg[f]]
    /\ amplification = cfg.amplification
    /\ clipping_value = init_clipping_values(cfg.output_clipping_value, cfg.amplification)
    /\ offset = init_offset(cfg.offset_min, cfg.offset_max, r)
    /\ scale = s.value
    /\ scale_is_parameter = s.parameter
    /\ control = InitialControl
    /\ bn = <<FreshBatchNorm, FreshBatchNorm>>
    /\ training = TRUE
    /\ pc = "idle"
    /\ input = NoTensor /\ layer = 0
    /\ x = NoTensor /\ x1 = NoTensor /\ x2 = NoTensor /\ device_output = NoTensor
    /\ bnx = NoTensor /\ std = NoTensor /\ cut = NoTensor /\ clipped = NoTensor
    /\ ret = [op |-> "__init__"]
    /\ ncalls = 0

(* nn.Module.train(mode) / eval() *)
Train(mode) ==
  /\ pc = "idle"
  /\ training # mode
  /\ training' = mode
  /\ UNCHANGED <<constructed, affine, control, bn, pc, locals, ret, counters>>

(* forward, line 160: x = (self.scale * x) + self.offset *)
ForwardBegin(t) ==
  /\ pc = "idle"
  /\ ncalls < MaxCalls
  /\ input' = t
  /\ x' = [k \in 1..Len(t) |-> [c \in 1..2 |-> (scale * t[k][c]) \div One + offset[c]]]
  /\ layer' = 1
  /\ pc' = "devices"
  /\ ncalls' = ncalls + 1
  /\ UNCHANGED <<constructed, affine, control, bn, training, x1, x2, device_output,
                 bnx, std, cut, clipped, ret>>

(* forward, lines 164 and 165: the two devices of the layer are called *)
CallDevices ==
  /\ pc = "devices"
  /\ x1' = DeviceForward(FirstNode(layer), x)
  /\ x2' = DeviceForward(SecondNode(layer), x)
  /\ device_output' = <<x1', x2'>>
  /\ pc' = "clip"
  /\ UNCHANGED <<constructed, affine, control, bn, training, input, layer, x,
                 bnx, std, cut, clipped, ret, counters>>

(* process_layer, lines 180 and 181 *)
ClipDeviceOutputs ==
  /\ pc = "clip"
  /\ x1' = clip(x1, clipping_value[FirstNode(layer)])
  /\ x2' = clip(x2, clipping_value[SecondNode(layer)])
  /\ pc' = "batch_norm"
  /\ UNCHANGED <<constructed, affine, control, bn, training, input, layer, x,
                 device_output, bnx, std, cut, clipped, ret, counters>>

(* process_layer, line 185: bnx, std = self.batch_norm(bn, x1, x2) *)
batch_norm ==
  /\ pc = "batch_norm"
  /\ LET t == Cat(x1, x2)
         b_after == BatchNormUpdate(bn[layer], t, training)
     IN /\ bnx' = BatchNormOutput(bn[layer], t, training)
        /\ bn' = [bn EXCEPT ![layer] = b_after]
        /\ std' = batch_norm_std(bn[layer], b_after)
  /\ pc' = "current_to_voltage"
  /\ UNCHANGED <<constructed, affine, control, training, input, layer, x, x1, x2,
                 device_output, cut, clipped, ret, counters>>

(* process_layer, lines 189 to 194 *)
ConvertToVoltage ==
  /\ pc = "current_to_voltage"
  /\ cut' = [c \in 1..2 |-> CutFactor * std[c]]
  /\ clipped' = Cat(current_to_voltage_clip(Column(bnx, 1), std[1]),
                    current_to_voltage_clip(Column(bnx, 2), std[2]))
  /\ x' = Cat(current_to_voltage(Column(bnx, 1), std[1], configs.conversion_offset),
              current_to_voltage(Column(bnx, 2), std[2], configs.conversion_offset))
  /\ IF layer = 1
     THEN layer' = 2 /\ pc' = "devices"
     ELSE layer' = layer /\ pc' = "output"
  /\ UNCHANGED <<constructed, affine, control, bn, training, input, x1, x2,
                 device_output, bnx, std, ret, counters>>

(* forward, line 167: return self.output_node(x) *)
forward_output(t) == DeviceForward("output_node", t)

ForwardReturn ==
  /\ pc = "output"
  /\ ret' = [op |-> "forward", input |-> input, training |-> training,
             value |-> forward_output(x)]
  /\ pc' = "idle"
  /\ input' = NoTensor /\ layer' = 0
  /\ x' = NoTensor /\ x1' = NoTensor /\ x2' = NoTensor /\ device_output' = NoTensor
  /\ bnx' = NoTensor /\ std' = NoTensor /\ cut' = NoTensor /\ clipped' = NoTensor
  /\ UNCHANGED <<constructed, affine, control, bn, training, counters>>

regularizer ==
  LET control_penalty == DeviceRegularizer("input_node1")
                           + DeviceRegularizer("input_node2")
                           + DeviceRegularizer("output_node")
  IN control_penalty + offset_penalty + scale_penalty

CallRegularizer ==
  /\ pc = "idle"
  /\ ret' = [op |-> "regularizer", value |-> regularizer]
  /\ UNCHANGED <<constructed, affine, control, bn, training, pc, locals, counters>>

(* which normalization objects reset() reconstructs, lines 205 to 207 *)
reset_batch_norm(b) ==
  IF configs.batch_norm = "True" THEN <<FreshBatchNorm, FreshBatchNorm>> ELSE b

(* offset.data.uniform_(min, max), line 203 *)
uniform_(lo, hi, r) == [c \in 1..2 |-> lo + ((hi - lo) * r[c]) \div One]

reset(fresh, r) ==
  /\ pc = "idle"
  /\ ncalls < MaxCalls
  /\ control' = fresh
  /\ offset' = uniform_(configs.offset_min, configs.offset_max, r)
  /\ LET s == init_scale(configs, configs.scale_min, configs.scale_max, r[3])
     IN scale' = s.value /\ scale_is_parameter' = s.parameter
  /\ bn' = reset_batch_norm(bn)
  /\ ret' = [op |-> "reset", devices_reset |-> Devices,
             raised |-> IF configs.batch_norm = "absent" THEN "KeyError" ELSE "None"]
  /\ ncalls' = ncalls + 1
  /\ UNCHANGED <<constructed, training, pc, locals>>

(* an optimizer step of the training harness on the registered parameters *)
OptimizerStep(u) ==
  /\ pc = "idle"
  /\ ncalls < MaxCalls
  /\ offset' = [c \in 1..2 |-> offset[c] + u.d_offset[c]]
  /\ scale' = IF scale_is_parameter THEN scale + u.d_scale ELSE scale
  /\ control' = u.control
  /\ ret' = [op |-> "optimizer_step"]
  /\ ncalls' = ncalls + 1
  /\ UNCHANGED <<constructed, scale_is_parameter, bn, training, pc, locals>>

Next ==
  \/ \E mode \in BOOLEAN : Train(mode)
  \/ \E t \in InputBatches : ForwardBegin(t)
  \/ CallDevices
  \/ ClipDeviceOutputs
  \/ batch_norm
  \/ ConvertToVoltage
  \/ ForwardReturn
  \/ CallRegularizer
  \/ \E o \in ResetDraws : reset(o.control, o.r)
  \/ \E u \in Updates : OptimizerStep(u)

Spec == Init /\ [][Next]_vars

----------------------------------------------------------------------------
(* Properties *)

Abs(v) == IF v < 0 THEN -v ELSE v

InRange(v, lo, hi) == lo <= v /\ v <= hi

(* the distance by which v lies below lo or above hi *)
Distance(v, lo, hi) == IF v < lo THEN lo - v ELSE IF v > hi THEN v - hi ELSE 0

(* v is raw clamped into [-b, b] *)
ClampOf(raw, v, b) ==
  /\ InRange(v, -b, b)
  /\ InRange(raw, -b, b) => v = raw
  /\ raw > b => v = b
  /\ raw < -b => v = -b

StaticBound(d) == (configs.output_clipping_value * amplification[d]) \div One

(* the conditioning stage whose conversion produced the current x *)
ConvertedStage == IF pc = "output" THEN 2 ELSE 1

Converted == (pc = "output") \/ (layer = 2 /\ pc \in {"devices", "clip", "batch_norm", "current_to_voltage"})

(* C1: regularizer() returns offset_penalty() + scale_penalty() plus the    *)
(* regularizer() of each of the five owned devices, hidden devices included *)
C1_RegularizerSumsAllDevices ==
  (pc = "idle" /\ ret.op = "regularizer") =>
    ret.value = offset_penalty + scale_penalty
                  + DeviceRegularizer("input_node1") + DeviceRegularizer("input_node2")
                  + DeviceRegularizer("hidden_node1") + DeviceRegularizer("hidden_node2")
                  + DeviceRegularizer("output_node")

(* C2: right after construction with offset.min <= offset.max both offset   *)
(* components lie in [offset.min, offset.max] and offset_penalty() is 0     *)
C2_FreshOffsetInRange ==
  (ret.op = "__init__" /\ configs.offset_min <= configs.offset_max) =>
    /\ \A c \in 1..2 : InRange(offset[c], configs.offset_min, configs.offset_max)
    /\ offset_penalty = 0

(* C3: when reset() has run, bn1 and bn2 are in their freshly constructed   *)
(* state and every owned device was asked to reset, whatever batch_norm is  *)
C3_ResetForgetsStatistics ==
  (pc = "idle" /\ ret.op = "reset") =>
    /\ bn = <<FreshBatchNorm, FreshBatchNorm>>
    /\ ret.devices_reset = Devices

(* C4: every value forward() returns lies within plus or minus             *)
(* output_clipping_value * output_node.get_amplification_value()           *)
C4_OutputClamped ==
  ret.op = "forward" =>
    \A k \in 1..Len(ret.value) :
      InRange(ret.value[k], -StaticBound("output_node"), StaticBound("output_node"))

(* C5: at each layer boundary the raw device outputs are clamped to their  *)
(* static bound before normalization sees them, the normalized channels    *)
(* are clamped to 2 * sqrt(running_var) before the remap, and the steps    *)
(* run in the order clamp, normalize, clamp to 2 std and remap             *)
C5_Clamped ==
  pc \in {"batch_norm", "current_to_voltage"} =>
    \A k \in 1..Len(x1) :
      /\ ClampOf(device_output[1][k], x1[k], StaticBound(FirstNode(layer)))
      /\ ClampOf(device_output[2][k], x2[k], StaticBound(SecondNode(layer)))

C5_Remapped ==
  Converted =>
    \A c \in 1..2 :
      /\ cut[c] = 2 * Sqrt(bn[ConvertedStage].running_var[c])
      /\ \A k \in 1..Len(x) :
           /\ InRange(clipped[k][c], -cut[c], cut[c])
           /\ cut[c] > 0 =>
                x[k][c] = (1800 * clipped[k][c]) \div (2 * cut[c]) + configs.conversion_offset

C5_Order ==
  /\ pc = "devices" => pc' = "clip"
  /\ pc = "clip" => pc' = "batch_norm" /\ bn' = bn
  /\ pc = "batch_norm" => pc' = "current_to_voltage" /\ x1' = x1 /\ x2' = x2
  /\ pc = "current_to_voltage" =>
       /\ pc' \in {"devices", "output"}
       /\ bnx' = bnx /\ bn' = bn
       /\ \A k \in 1..Len(bnx) : \A c \in 1..2 :
            ClampOf(bnx[k][c], clipped'[k][c], 2 * Sqrt(bn[layer].running_var[c]))

C5_LayerBoundaryOrder == [](C5_Clamped /\ C5_Remapped) /\ [][C5_Order]_vars

C5_Witness ==
  /\ pc = "output"
  /\ \E k \in 1..Len(x) : Abs(bnx[k][1]) > cut[1] /\ Abs(clipped[k][1]) = cut[1]
  /\ \E k \in 1..Len(x1) : Abs(device_output[1][k]) > StaticBound("hidden_node1")

(* C6: an evaluation-mode forward pass leaves bn1 and bn2 unchanged, the   *)
(* statistics change only in the normalization step of a training-mode     *)
(* pass (or when reset() reconstructs them), no forward pass changes       *)
(* offset or scale, and an evaluation pass that directly follows an        *)
(* evaluation pass with the same input returns the same output             *)
C6_Step ==
  /\ pc # "idle" => offset' = offset /\ scale' = scale /\ scale_is_parameter' = scale_is_parameter
  /\ (pc # "idle" /\ ~training) => bn' = bn
  /\ bn' # bn => \/ pc = "batch_norm" /\ training
                 \/ pc = "idle" /\ ret'.op = "reset" /\ ncalls' = ncalls + 1
  /\ (pc = "output" /\ ~training /\ ret.op = "forward" /\ ~ret.training /\ ret.input = input)
       => ret'.value = ret.value

C7_DegenerateScaleFrozen ==
  IF configs.scale_min = One /\ configs.scale_max = One
  THEN scale = One /\ ~scale_is_parameter
  ELSE scale_is_parameter

C7_Witness ==
  /\ configs.scale_min = One /\ configs.scale_max = One
  /\ ncalls = 2 /\ ret.op = "optimizer_step" /\ control # InitialControl
  /\ scale = One

(* C8: with min <= max, offset_penalty() is the sum over the components of *)
(* their distance to [offset.min, offset.max] and is 0 iff all lie inside; *)
(* scale_penalty() is the same for the scale and [scale.min, scale.max]    *)
C8_PenaltyIsDistance ==
  /\ configs.offset_min <= configs.offset_max =>
       /\ offset_penalty = Distance(offset[1], configs.offset_min, configs.offset_max)
                             + Distance(offset[2], configs.offset_min, configs.offset_max)
       /\ offset_penalty = 0 <=>
            \A c \in 1..2 : InRange(offset[c], configs.offset_min, configs.offset_max)
  /\ configs.scale_min <= configs.scale_max =>
       /\ scale_penalty = Distance(scale, configs.scale_min, configs.scale_max)
       /\ scale_penalty = 0 <=> InRange(scale, configs.scale_min, configs.scale_max)

C8_Witness ==
  /\ ret.op = "regularizer"
  /\ offset[1] > configs.offset_max /\ offset[2] < configs.offset_min
  /\ scale > configs.scale_max
  /\ offset_penalty > 0 /\ scale_penalty > 0

(* C9: in training and in evaluation mode the std handed to the            *)
(* conversion, its clip bound and its factor are those of the stage's      *)
(* running variance as it is after the normalization step of the pass      *)
C9_StdIsRunningStd ==
  /\ pc = "current_to_voltage" =>
       \A c \in 1..2 : std[c] = Sqrt(bn[layer].running_var[c])
  /\ Converted =>
       \A c \in 1..2 :
         LET running_std == Sqrt(bn[ConvertedStage].running_var[c])
         IN /\ cut[c] = 2 * running_std
            /\ running_std > 0 =>
                 \A k \in 1..Len(x) :
                   x[k][c] = (1800 * clipped[k][c]) \div (4 * running_std)
                               + configs.conversion_offset

C9_Witness ==
  /\ pc = "current_to_voltage" /\ training /\ layer = 1 /\ bn[2] = FreshBatchNorm
  /\ \A c \in 1..2 :
       /\ std[c] # One
       /\ std[c] # Sqrt(SumSquares(Column(Cat(x1, x2), c)) \div Len(x1))
       /\ std[c] # Sqrt(SumSquares(Column(Cat(x1, x2), c)) \div (Len(x1) - 1))

(* C10: with a positive running std, every voltage produced by the         *)
(* conversion, hence every input of a hidden device or of the output       *)
(* device, lies in [conversion_offset - 0.9, conversion_offset + 0.9]      *)
C10_VoltageRange ==
  (pc \in {"devices", "output"} /\ Converted) =>
    \A c \in 1..2 :
      Sqrt(bn[ConvertedStage].running_var[c]) > 0 =>
        \A k \in 1..Len(x) :
          InRange(x[k][c], configs.conversion_offset - 900, configs.conversion_offset + 900)

C10_Witness ==
  /\ pc = "output" /\ bn[2].num_batches_tracked = 2
  /\ \E k \in 1..Len(x) : x[k][1] = configs.conversion_offset + 900 /\ Abs(bnx[k][1]) > cut[1]
  /\ \E k \in 1..Len(x) : x[k][2] = configs.conversion_offset - 900

====
